---- MODULE Spec2Model ----
(***************************************************************************)
(* tmpfiles-rs: the tmpfiles.d line parser (src/parser/mod.rs,             *)
(* src/parser/age.rs, src/parser/basic.rs, src/common/action.rs) and the   *)
(* older single-file parser (src/parser.rs).                               *)
(*                                                                         *)
(* A byte is a one-byte name (a string); an input is a sequence of bytes.  *)
(* A parser is an operator from the input to a result                      *)
(*     [st |-> "Ok" | "Err" | "Panic", rest |-> bytes, val |-> value]      *)
(* "Ok"/"Err" are nom's IResult, "Panic" is an unwinding abort             *)
(* (unwrap() on an Err, todo!(), overflow with overflow checks on).        *)
(* Unsigned integers wider than TLC's are little-endian sequences of       *)
(* decimal digits without a most significant zero (zero is << >>).         *)
(***************************************************************************)
EXTENDS Integers, Sequences, FiniteSets, TLC

VARIABLES line, parts, pc, input, locals, ret

vars == <<line, parts, pc, input, locals, ret>>

(***************************************************************************)
(* Bytes                                                                   *)
(***************************************************************************)
SP == " "
TAB == "\t"
LF == "\n"
CR == "\r"
FF == "\f"
VT == "<0B>"
NEL == "<85>"
NBSP == "<A0>"
HIGH == "<FF>"

Digits == <<"0", "1", "2", "3", "4", "5", "6", "7", "8", "9">>

DigitBytes == {Digits[i] : i \in 1..10}

OctDigitBytes == {Digits[i] : i \in 1..8}

LowerBytes ==
    {"a", "b", "c", "d", "e", "f", "g", "h", "i", "j", "k", "l", "m",
     "n", "o", "p", "q", "r", "s", "t", "u", "v", "w", "x", "y", "z"}

UpperBytes ==
    {"A", "B", "C", "D", "E", "F", "G", "H", "I", "J", "K", "L", "M",
     "N", "O", "P", "Q", "R", "S", "T", "U", "V", "W", "X", "Y", "Z"}

PunctBytes == {"/", "-", "~", "!", "+", "_", ".", "#"}

\* nom::character::complete::space1 accepts these two bytes
SpaceBytes == {SP, TAB}

\* (c as char).is_whitespace() for a byte c: U+0009..U+000D, U+0020,
\* U+0085 and U+00A0
WhitespaceBytes == {SP, TAB, LF, VT, FF, CR, NEL, NBSP}

Bytes ==
    DigitBytes \cup LowerBytes \cup UpperBytes \cup PunctBytes
        \cup WhitespaceBytes \cup {HIGH}

\* b - b'0'
DigitVal(b) == (CHOOSE i \in 1..10 : Digits[i] = b) - 1

(***************************************************************************)
(* Unsigned integers of any width                                          *)
(***************************************************************************)
\* the element of a one-element set: {f(x) : x \in {e}} evaluates e once
Only(S) == CHOOSE x \in S : TRUE

RECURSIVE BigNorm(_)
BigNorm(a) ==
    IF a = << >> THEN << >>
    ELSE IF a[Len(a)] = 0 THEN BigNorm(SubSeq(a, 1, Len(a) - 1))
    ELSE a

RECURSIVE FromInt(_)
FromInt(n) == IF n = 0 THEN << >> ELSE <<n % 10>> \o FromInt(n \div 10)

RECURSIVE BigAddC(_, _, _)
BigAddC(a, b, c) ==
    IF a = << >> /\ b = << >>
    THEN (IF c = 0 THEN << >> ELSE <<c>>)
    ELSE LET x == IF a = << >> THEN 0 ELSE Head(a)
             y == IF b = << >> THEN 0 ELSE Head(b)
             ta == IF a = << >> THEN << >> ELSE Tail(a)
             tb == IF b = << >> THEN << >> ELSE Tail(b)
             s == x + y + c
         IN  <<s % 10>> \o BigAddC(ta, tb, s \div 10)

BigAdd(a, b) == BigNorm(BigAddC(a, b, 0))

RECURSIVE BigMulDigitC(_, _, _)
BigMulDigitC(a, d, c) ==
    IF a = << >>
    THEN (IF c = 0 THEN << >> ELSE <<c>>)
    ELSE LET s == Head(a) * d + c
         IN  <<s % 10>> \o BigMulDigitC(Tail(a), d, s \div 10)

RECURSIVE BigMul(_, _)
BigMul(a, b) ==
    IF a = << >> \/ b = << >> THEN << >>
    ELSE IF Head(a) = 0 THEN <<0>> \o BigMul(Tail(a), b)
    ELSE IF Head(b) = 0 THEN <<0>> \o BigMul(a, Tail(b))
    ELSE Only({BigAdd(BigMulDigitC(a, Head(b), 0),
                      IF r = << >> THEN << >> ELSE <<0>> \o r) :
               r \in {BigMul(a, Tail(b))}})

RECURSIVE BigLtSameLen(_, _)
BigLtSameLen(a, b) ==
    IF a = << >> THEN FALSE
    ELSE IF a[Len(a)] # b[Len(b)] THEN a[Len(a)] < b[Len(b)]
    ELSE BigLtSameLen(SubSeq(a, 1, Len(a) - 1), SubSeq(b, 1, Len(b) - 1))

BigLt(a, b) ==
    IF Len(a) # Len(b) THEN Len(a) < Len(b) ELSE BigLtSameLen(a, b)

BigLeq(a, b) == a = b \/ BigLt(a, b)

\* a - b for b <= a
RECURSIVE BigSubB(_, _, _)
BigSubB(a, b, borrow) ==
    IF a = << >> THEN << >>
    ELSE LET y == IF b = << >> THEN 0 ELSE Head(b)
             tb == IF b = << >> THEN << >> ELSE Tail(b)
             s == Head(a) - y - borrow
         IN  IF s < 0 THEN <<s + 10>> \o BigSubB(Tail(a), tb, 1)
             ELSE <<s>> \o BigSubB(Tail(a), tb, 0)

BigSub(a, b) == BigNorm(BigSubB(a, b, 0))

RECURSIVE BigMod(_, _)
BigMod(a, m) ==
    IF BigLt(a, m) THEN a
    ELSE LET m10 == <<0>> \o m
         IN  IF BigLeq(m10, a) THEN BigMod(BigMod(a, m10), m)
             ELSE BigMod(BigSub(a, m), m)

\* 2^16 = 65536, 2^32 = 2^16 * 2^16, 2^64 = 2^32 * 2^32
Pow2_32 == BigMul(FromInt(65536), FromInt(65536))

Pow2_64 == BigMul(Pow2_32, Pow2_32)

\* u32::MAX and u64::MAX
U32_MAX == BigSub(Pow2_32, <<1>>)

U64_MAX == BigSub(Pow2_64, <<1>>)

(***************************************************************************)
(* Parser results                                                          *)
(***************************************************************************)
NoVal == << >>

Ok(rest, val) == [st |-> "Ok", rest |-> rest, val |-> val]

Err(i) == [st |-> "Err", rest |-> i, val |-> NoVal]

Panic(i) == [st |-> "Panic", rest |-> i, val |-> NoVal]

None == << >>

Some(v) == <<v>>

(***************************************************************************)
(* nom combinators (complete versions), on an evaluated result or input    *)
(***************************************************************************)
Drop(i, n) == SubSeq(i, n + 1, Len(i))

Take(i, n) == SubSeq(i, 1, n)

\* length of the longest prefix of i whose bytes are all in S
RECURSIVE PrefixLen(_, _)
PrefixLen(i, S) ==
    IF i = << >> \/ Head(i) \notin S THEN 0 ELSE 1 + PrefixLen(Tail(i), S)

\* char(c)
Char(c, i) == IF i # << >> /\ Head(i) = c THEN Ok(Tail(i), c) ELSE Err(i)

\* tag(t)
Tag(t, i) ==
    IF Len(i) >= Len(t) /\ Take(i, Len(t)) = t
    THEN Ok(Drop(i, Len(t)), t) ELSE Err(i)

\* one_of(list)
OneOf(list, i) ==
    IF i # << >> /\ \E k \in 1..Len(list) : list[k] = Head(i)
    THEN Ok(Tail(i), Head(i)) ELSE Err(i)

\* digit1
Digit1(i) ==
    LET n == PrefixLen(i, DigitBytes)
    IN  IF n >= 1 THEN Ok(Drop(i, n), Take(i, n)) ELSE Err(i)

\* space1: one or more spaces or tabs
Space1(i) ==
    LET n == PrefixLen(i, SpaceBytes)
    IN  IF n >= 1 THEN Ok(Drop(i, n), Take(i, n)) ELSE Err(i)

\* take_till(|c| c in S): the longest prefix with no byte of S, empty or not
RECURSIVE TillLen(_, _)
TillLen(i, S) ==
    IF i = << >> \/ Head(i) \in S THEN 0 ELSE 1 + TillLen(Tail(i), S)

TakeTill(S, i) ==
    LET n == TillLen(i, S)
    IN  Ok(Drop(i, n), Take(i, n))

\* take_while_m_n(m, n, |c| c in S)
TakeWhileMN(m, n, S, i) ==
    LET k == PrefixLen(i, S)
    IN  IF k < m THEN Err(i)
        ELSE IF k > n THEN Ok(Drop(i, n), Take(i, n))
        ELSE Ok(Drop(i, k), Take(i, k))

\* opt(p) given p's result r on i
Opt(r, i) ==
    IF r.st = "Ok" THEN Ok(r.rest, Some(r.val))
    ELSE IF r.st = "Err" THEN Ok(i, None)
    ELSE r

\* alt((p, q)) given the results: q is tried on a recoverable error only
Alt(r, q) == IF r.st = "Err" THEN q ELSE r

\* peek(p) given p's result r on i
Peek(r, i) == IF r.st = "Ok" THEN Ok(i, r.val) ELSE r

\* all_consuming(p) given p's result r on i
AllConsuming(r, i) == IF r.st = "Ok" /\ r.rest # << >> THEN Err(i) ELSE r

\* rest
Rest(i) == Ok(<< >>, i)

\* map(p, f) given p's result r and the mapped value
MapVal(r, v) == IF r.st = "Ok" THEN Ok(r.rest, v) ELSE r

(***************************************************************************)
(* btoi: ASCII digits to an unsigned integer no larger than max            *)
(***************************************************************************)
RECURSIVE BtouAcc(_, _, _)
BtouAcc(bytes, acc, max) ==
    IF bytes = << >> THEN [ok |-> TRUE, val |-> acc]
    ELSE LET n == BigAdd(BigMul(acc, <<0, 1>>), FromInt(DigitVal(Head(bytes))))
         IN  IF BigLt(max, n) THEN [ok |-> FALSE, val |-> << >>]
             ELSE BtouAcc(Tail(bytes), n, max)

btoi(bytes, max) ==
    IF bytes = << >> THEN [ok |-> FALSE, val |-> << >>]
    ELSE BtouAcc(bytes, << >>, max)

\* btoi_radix(bytes, 8) into a u32, for at most four octal digits
RECURSIVE BtouRadix8(_, _)
BtouRadix8(bytes, acc) ==
    IF bytes = << >> THEN acc
    ELSE BtouRadix8(Tail(bytes), acc * 8 + DigitVal(Head(bytes)))

btoi_radix(bytes) == BtouRadix8(bytes, 0)

(***************************************************************************)
(* src/common/action.rs                                                    *)
(***************************************************************************)
ItemTypes ==
    {"CREATE_FILE", "CREATE_DIRECTORY", "TRUNCATE_DIRECTORY",
     "CREATE_SUBVOLUME", "CREATE_SUBVOLUME_INHERIT_QUOTA",
     "CREATE_SUBVOLUME_NEW_QUOTA", "CREATE_FIFO", "CREATE_SYMLINK",
     "CREATE_BLOCK_DEVICE", "CREATE_CHAR_DEVICE", "COPY_FILES", "WRITE_FILE",
     "EMPTY_DIRECTORY", "SET_XATTR", "RECURSIVE_SET_XATTR", "SET_ACL",
     "RECURSIVE_SET_ACL", "SET_ATTRIBUTE", "RECURSIVE_SET_ATTRIBUTE",
     "IGNORE_PATH", "IGNORE_DIRECTORY_PATH", "REMOVE_PATH",
     "RECURSIVE_REMOVE_PATH", "RELABEL_PATH", "RECURSIVE_RELABEL_PATH"}

\* impl TryFrom<char> for ItemTypes
try_from(type_char) ==
    CASE type_char = "f" -> [ok |-> TRUE, val |-> "CREATE_FILE"]
      [] type_char = "d" -> [ok |-> TRUE, val |-> "CREATE_DIRECTORY"]
      [] type_char = "D" -> [ok |-> TRUE, val |-> "TRUNCATE_DIRECTORY"]
      [] type_char = "v" -> [ok |-> TRUE, val |-> "CREATE_SUBVOLUME"]
      [] type_char = "q" -> [ok |-> TRUE, val |-> "CREATE_SUBVOLUME_INHERIT_QUOTA"]
      [] type_char = "Q" -> [ok |-> TRUE, val |-> "CREATE_SUBVOLUME_NEW_QUOTA"]
      [] type_char = "p" -> [ok |-> TRUE, val |-> "CREATE_FIFO"]
      [] type_char = "L" -> [ok |-> TRUE, val |-> "CREATE_SYMLINK"]
      [] type_char = "b" -> [ok |-> TRUE, val |-> "CREATE_BLOCK_DEVICE"]
      [] type_char = "c" -> [ok |-> TRUE, val |-> "CREATE_CHAR_DEVICE"]
      [] type_char = "C" -> [ok |-> TRUE, val |-> "COPY_FILES"]
      [] type_char = "w" -> [ok |-> TRUE, val |-> "WRITE_FILE"]
      [] type_char = "e" -> [ok |-> TRUE, val |-> "EMPTY_DIRECTORY"]
      [] type_char = "t" -> [ok |-> TRUE, val |-> "SET_XATTR"]
      [] type_char = "T" -> [ok |-> TRUE, val |-> "RECURSIVE_SET_XATTR"]
      [] type_char = "a" -> [ok |-> TRUE, val |-> "SET_ACL"]
      [] type_char = "A" -> [ok |-> TRUE, val |-> "RECURSIVE_SET_ACL"]
      [] type_char = "h" -> [ok |-> TRUE, val |-> "SET_ATTRIBUTE"]
      [] type_char = "H" -> [ok |-> TRUE, val |-> "RECURSIVE_SET_ATTRIBUTE"]
      [] type_char = "x" -> [ok |-> TRUE, val |-> "IGNORE_PATH"]
      [] type_char = "X" -> [ok |-> TRUE, val |-> "IGNORE_DIRECTORY_PATH"]
      [] type_char = "r" -> [ok |-> TRUE, val |-> "REMOVE_PATH"]
      [] type_char = "R" -> [ok |-> TRUE, val |-> "RECURSIVE_REMOVE_PATH"]
      [] type_char = "z" -> [ok |-> TRUE, val |-> "RELABEL_PATH"]
      [] type_char = "Z" -> [ok |-> TRUE, val |-> "RECURSIVE_RELABEL_PATH"]
      [] OTHER -> [ok |-> FALSE, val |-> "Invalid item type"]

\* Mode::new: Permissions::from_mode keeps the bits as given
Mode_new(masked, mode_bits) == [masked |-> masked, mode |-> mode_bits]

\* CleanupAge::new
CleanupAge_new(a, keep_first_level) ==
    [age |-> a, keep_first_level |-> keep_first_level]

User_ID(n) == [enum |-> "User", ID |-> n]

User_Name(bytes) == [enum |-> "User", Name |-> bytes]

Group_ID(n) == [enum |-> "Group", ID |-> n]

Group_Name(bytes) == [enum |-> "Group", Name |-> bytes]

(***************************************************************************)
(* src/parser/basic.rs                                                     *)
(***************************************************************************)
empty_placeholder(i) == Char("-", i)

(***************************************************************************)
(* src/parser/mod.rs: the field parsers                                    *)
(***************************************************************************)
VALID_ITEM_TYPES ==
    <<"f", "F", "d", "D", "v", "q", "Q", "p", "L", "c", "b", "C", "w", "e",
      "t", "T", "a", "A", "h", "H", "x", "X", "r", "R", "z", "Z", "m">>

\* item_type_char with an unmapped letter of the alphabet resolved to the
\* kind of Action::default() instead of failing
item_type_char_defaulting(i) ==
    LET c == OneOf(VALID_ITEM_TYPES, i)
    IN  IF c.st # "Ok" THEN c
        ELSE LET t == try_from(c.val)
             IN  IF t.ok THEN Ok(c.rest, t.val)
                 ELSE Ok(c.rest, "CREATE_DIRECTORY")

\* map_res(one_of(VALID_ITEM_TYPES), ItemTypes::try_from)
item_type_char(i) ==
    LET c == OneOf(VALID_ITEM_TYPES, i)
    IN  IF c.st # "Ok" THEN c
        ELSE LET t == try_from(c.val)
             IN  IF t.ok THEN Ok(c.rest, t.val) ELSE Err(i)

\* item_type with the three optional modifiers accepted in any order and
\* any number
RECURSIVE item_type_any_order_from(_, _)
item_type_any_order_from(i, v) ==
    IF i # << >> /\ Head(i) = "!"
    THEN item_type_any_order_from(Tail(i), [v EXCEPT !.boot_only = TRUE])
    ELSE IF i # << >> /\ Head(i) = "+"
    THEN item_type_any_order_from(Tail(i), [v EXCEPT !.append_or_force = TRUE])
    ELSE IF i # << >> /\ Head(i) = "-"
    THEN item_type_any_order_from(Tail(i), [v EXCEPT !.allow_failure = TRUE])
    ELSE MapVal(Space1(i), v)

item_type_any_order(i) ==
    LET t == item_type_char(i)
    IN  IF t.st # "Ok" THEN t
        ELSE item_type_any_order_from(t.rest,
                 [i_type |-> t.val, boot_only |-> FALSE,
                  append_or_force |-> FALSE, allow_failure |-> FALSE])

item_type(i) ==
    LET t == item_type_char(i)
    IN  IF t.st # "Ok" THEN t
        ELSE LET b == Opt(Char("!", t.rest), t.rest)
                 a == Opt(Char("+", b.rest), b.rest)
                 f == Opt(Char("-", a.rest), a.rest)
                 s == Space1(f.rest)
             IN  IF s.st # "Ok" THEN s
                 ELSE Ok(s.rest,
                         [i_type |-> t.val,
                          boot_only |-> b.val # None,
                          append_or_force |-> a.val # None,
                          allow_failure |-> f.val # None])

path(i) == TakeTill(WhitespaceBytes, i)

non_empty_mode(i) ==
    LET masked == Opt(Char("~", i), i)
        d0 == Opt(Tag(<<"0">>, masked.rest), masked.rest)
        mode_digits == Alt(TakeWhileMN(4, 4, OctDigitBytes, d0.rest),
                           TakeWhileMN(3, 3, OctDigitBytes, d0.rest))
    IN  IF mode_digits.st # "Ok" THEN Err(i)
        ELSE Ok(mode_digits.rest,
                Mode_new(masked.val # None, btoi_radix(mode_digits.val)))

mode(i) ==
    Alt(MapVal(empty_placeholder(i), None),
        LET m == non_empty_mode(i) IN MapVal(m, Some(m.val)))

\* map(digit1, |uid| btoi(uid).unwrap()) into a u32
user_or_group_id(i) ==
    LET uid == Digit1(i)
    IN  IF uid.st # "Ok" THEN uid
        ELSE LET n == btoi(uid.val, U32_MAX)
             IN  IF n.ok THEN Ok(uid.rest, n.val) ELSE Panic(i)

user_or_group_name(i) == TakeTill(WhitespaceBytes, i)

user(i) ==
    Alt(MapVal(empty_placeholder(i), None),
        LET id == user_or_group_id(i)
            name == user_or_group_name(i)
            u == Alt(MapVal(id, User_ID(id.val)),
                     MapVal(name, User_Name(name.val)))
        IN  MapVal(u, Some(u.val)))

group(i) ==
    Alt(MapVal(empty_placeholder(i), None),
        LET id == user_or_group_id(i)
            name == user_or_group_name(i)
            g == Alt(MapVal(id, Group_ID(id.val)),
                     MapVal(name, Group_Name(name.val)))
        IN  MapVal(g, Some(g.val)))

\* argument without all_consuming: the placeholder alternative takes "-"
\* or nothing off the front and leaves the rest
argument_placeholder_prefix(i) ==
    Alt(MapVal(Alt(Tag(<<"-">>, i), Tag(<< >>, i)), None),
        LET r == Rest(i) IN MapVal(r, Some(r.val)))

argument(i) ==
    Alt(MapVal(AllConsuming(Alt(Tag(<<"-">>, i), Tag(<< >>, i)), i), None),
        LET r == Rest(i) IN MapVal(r, Some(r.val)))

(***************************************************************************)
(* src/parser/age.rs                                                       *)
(***************************************************************************)
USEC_PER_MSEC == FromInt(1000)

USEC_PER_SEC == BigMul(FromInt(1000), USEC_PER_MSEC)

USEC_PER_MIN == BigMul(FromInt(60), USEC_PER_SEC)

USEC_PER_HOUR == BigMul(FromInt(60), USEC_PER_MIN)

USEC_PER_DAY == BigMul(FromInt(24), USEC_PER_HOUR)

USEC_PER_WEEK == BigMul(FromInt(7), USEC_PER_DAY)

\* u64 arithmetic: an overflow panics when the build checks overflows (oc)
\* and wraps modulo 2^64 when it does not
U64(n, oc) ==
    IF BigLeq(n, U64_MAX) THEN [ok |-> TRUE, val |-> n]
    ELSE IF oc THEN [ok |-> FALSE, val |-> << >>]
    ELSE [ok |-> TRUE, val |-> BigMod(n, Pow2_64)]

\* the first tag of the list that matches, as alt((tag(..), tag(..)))
RECURSIVE AltTags(_, _)
AltTags(tags, i) ==
    IF tags = << >> THEN Err(i)
    ELSE Alt(Tag(Head(tags), i), AltTags(Tail(tags), i))

\* btoi::<u64>(digits).unwrap() * weight, leaving rest
Scaled(digits, weight, oc, i, rest) ==
    Only({IF ~n.ok THEN Panic(i)
          ELSE Only({IF p.ok THEN Ok(rest, p.val) ELSE Panic(i) :
                     p \in {U64(BigMul(n.val, weight), oc)}}) :
          n \in {btoi(digits, U64_MAX)}})

\* opt(terminated(digit1, alt(tags))), then
\* Some(n) => btoi::<u64>(n).unwrap() * weight, None => 0
Component(i, tags, weight, oc) ==
    Only({IF d.st # "Ok" THEN Ok(i, << >>)
          ELSE Only({IF t.st # "Ok" THEN Ok(i, << >>)
                     ELSE Scaled(d.val, weight, oc, i, t.rest) :
                     t \in {AltTags(tags, d.rest)}}) :
          d \in {Digit1(i)}})

weeks(i, oc) ==
    Component(i, << <<"w">>, <<"w", "e", "e", "k", "s">> >>, USEC_PER_WEEK, oc)

\* days with the multiplier of hours
days_as_hours(i, oc) ==
    Component(i, << <<"d">>, <<"d", "a", "y", "s">> >>, USEC_PER_HOUR, oc)

days(i, oc) ==
    Component(i, << <<"d">>, <<"d", "a", "y", "s">> >>, USEC_PER_DAY, oc)

hours(i, oc) ==
    Component(i, << <<"h">>, <<"h", "o", "u", "r", "s">> >>, USEC_PER_HOUR, oc)

minutes(i, oc) ==
    Component(i, << <<"m">>, <<"m", "i", "n">>,
                    <<"m", "i", "n", "u", "t", "e", "s">> >>, USEC_PER_MIN, oc)

seconds(i, oc) ==
    Component(i, << <<"s">>, <<"s", "e", "c", "o", "n", "d", "s">> >>,
              USEC_PER_SEC, oc)

milli_seconds(i, oc) ==
    Component(i, << <<"m", "s">>,
                    <<"m", "i", "l", "l", "i", "s", "e", "c", "o", "n", "d", "s">> >>,
              USEC_PER_MSEC, oc)

\* no multiplication here: the weight is 1 and cannot overflow
micro_seconds(i, oc) ==
    Component(i, << <<"m", "s">>,
                    <<"m", "i", "c", "r", "o", "s", "e", "c", "o", "n", "d", "s">> >>,
              <<1>>, oc)

\* age_components.iter().sum()
RECURSIVE SumU64(_, _, _)
SumU64(components, acc, oc) ==
    IF components = << >> THEN [ok |-> TRUE, val |-> acc]
    ELSE LET n == U64(BigAdd(acc, Head(components)), oc)
         IN  IF n.ok THEN SumU64(Tail(components), n.val, oc) ELSE n

\* the k-th statement of age_with_unit
AgeUnit(k, i, oc) ==
    CASE k = 1 -> weeks(i, oc)
      [] k = 2 -> days(i, oc)
      [] k = 3 -> hours(i, oc)
      [] k = 4 -> minutes(i, oc)
      [] k = 5 -> seconds(i, oc)
      [] k = 6 -> milli_seconds(i, oc)
      [] k = 7 -> micro_seconds(i, oc)

\* statements k..7 of age_with_unit, then the sum; the values so far are
\* in components, i0 is the input of age_with_unit
RECURSIVE AgeUnitsFrom(_, _, _, _, _)
AgeUnitsFrom(k, i, components, oc, i0) ==
    IF k > 7
    THEN Only({IF a.ok THEN Ok(i, a.val) ELSE Panic(i0) :
               a \in {SumU64(components, << >>, oc)}})
    ELSE Only({IF r.st # "Ok" THEN r
               ELSE AgeUnitsFrom(k + 1, r.rest, Append(components, r.val),
                                 oc, i0) :
               r \in {AgeUnit(k, i, oc)}})

age_with_unit(i, oc) == AgeUnitsFrom(1, i, << >>, oc, i)

\* age_without_unit with space1 in place of peek(space1): the separator
\* is consumed
age_without_unit_consuming(i, oc) ==
    LET digits == Digit1(i)
        sp == IF digits.st = "Ok" THEN Space1(digits.rest) ELSE digits
    IN  IF sp.st # "Ok" THEN Err(i)
        ELSE Scaled(digits.val, USEC_PER_SEC, oc, i, sp.rest)

age_without_unit(i, oc) ==
    LET digits == Digit1(i)
        sp == IF digits.st = "Ok" THEN Peek(Space1(digits.rest), digits.rest)
              ELSE digits
    IN  IF sp.st # "Ok" THEN Err(i)
        ELSE Scaled(digits.val, USEC_PER_SEC, oc, i, sp.rest)

age(i, oc) ==
    LET keep_first_level == Opt(Char("~", i), i)
        omitted == Opt(empty_placeholder(keep_first_level.rest),
                       keep_first_level.rest)
    IN  IF omitted.val # None THEN Ok(omitted.rest, None)
        ELSE Only({MapVal(a, Some(CleanupAge_new(a.val,
                                      keep_first_level.val # None))) :
                   a \in {Alt(age_without_unit(omitted.rest, oc),
                              age_with_unit(omitted.rest, oc))}})

(***************************************************************************)
(* src/parser.rs: the older parser's item-type resolver                    *)
(***************************************************************************)
\* impl TryFrom<char> for ItemTypes: todo!() for every letter but d, f, z
parser_rs_try_from(type_char) ==
    CASE type_char = "d" -> [st |-> "Ok", val |-> "CREATE_DIRECTORY"]
      [] type_char = "f" -> [st |-> "Ok", val |-> "CREATE_FILE"]
      [] type_char = "z" -> [st |-> "Ok", val |-> "RELABEL_PATH"]
      [] OTHER -> [st |-> "Panic", val |-> "not yet implemented"]

parser_rs_item_type_char(i) ==
    LET c == OneOf(VALID_ITEM_TYPES, i)
    IN  IF c.st # "Ok" THEN c
        ELSE LET t == parser_rs_try_from(c.val)
             IN  IF t.st = "Ok" THEN Ok(c.rest, t.val) ELSE Panic(i)

(***************************************************************************)
(* src/parser/mod.rs: parse_line, one step per statement.                  *)
(* pc names the statement about to run; `?` returns the error at once.     *)
(***************************************************************************)
NoRet == [st |-> "Running", rest |-> << >>, val |-> NoVal]

NoLocals == << >>

\* a failing statement that returns Ok with the fields bound so far
StepReturningPartial(here, r, bind, next) ==
    /\ pc = here
    /\ IF r.st = "Ok"
       THEN /\ pc' = next
            /\ input' = r.rest
            /\ locals' = locals @@ bind
            /\ ret' = ret
       ELSE /\ pc' = IF r.st = "Panic" THEN "panicked" ELSE "returned"
            /\ input' = input
            /\ locals' = locals
            /\ ret' = IF r.st = "Panic" THEN ret ELSE Ok(input, locals)
    /\ UNCHANGED <<line, parts>>

\* let (input, v) = parser(input)?; with v bound by `bind`
Step(here, r, bind, next) ==
    /\ pc = here
    /\ IF r.st = "Ok"
       THEN /\ pc' = next
            /\ input' = r.rest
            /\ locals' = locals @@ bind
            /\ ret' = ret
       ELSE /\ pc' = IF r.st = "Panic" THEN "panicked" ELSE "returned"
            /\ input' = input
            /\ locals' = locals
            /\ ret' = IF r.st = "Panic" THEN ret ELSE r
    /\ UNCHANGED <<line, parts>>

\* let (input, _) = char(' ')(input)?; one space, no tab, no run
StepOneSpace(here, next) ==
    \E r \in {Char(SP, input)} : Step(here, r, << >>, next)

\* let (input, _) = space1(input)?;
StepSpace1(here, next) ==
    \E r \in {Space1(input)} : Step(here, r, << >>, next)

ItemTypeStep ==
    \E r \in {item_type(input)} :
        Step("item_type", r,
             [action_type |-> r.val.i_type,
              boot_only |-> r.val.boot_only,
              append_or_force |-> r.val.append_or_force,
              allow_failure |-> r.val.allow_failure],
             "path")

PathStep ==
    \E r \in {path(input)} : Step("path", r, [path |-> r.val], "space1_path")

PathSpaceStep == StepSpace1("space1_path", "mode")

ModeStep ==
    \E r \in {mode(input)} : Step("mode", r, [mode |-> r.val], "space1_mode")

ModeSpaceStep == StepSpace1("space1_mode", "user")

UserStep ==
    \E r \in {user(input)} : Step("user", r, [user |-> r.val], "space1_user")

UserSpaceStep == StepSpace1("space1_user", "group")

GroupStep ==
    \E r \in {group(input)} :
        Step("group", r, [group |-> r.val], "space1_group")

GroupSpaceStep == StepSpace1("space1_group", "age")

AgeStep ==
    \E oc \in BOOLEAN :
        \E r \in {age(input, oc)} :
            Step("age", r, [age |-> r.val], "space1_age")

\* the space1 after age(input) left out: argument follows the age at once
AgeSpaceStepLeftOut ==
    /\ pc = "space1_age"
    /\ pc' = "argument"
    /\ UNCHANGED <<line, parts, input, locals, ret>>

AgeSpaceStep == StepSpace1("space1_age", "argument")

\* the last statement and the Ok((input, Action { .. })) that follows it
ArgumentStep ==
    \E r \in {argument(input)} :
        /\ pc = "argument"
        /\ pc' = "returned"
        /\ input' = r.rest
        /\ locals' = locals
        /\ ret' = IF r.st = "Ok"
                  THEN Ok(r.rest,
                          [action_type |-> locals.action_type,
                           path |-> locals.path,
                           mode |-> locals.mode,
                           user |-> locals.user,
                           group |-> locals.group,
                           age |-> locals.age,
                           argument |-> r.val,
                           boot_only |-> locals.boot_only,
                           append_or_force |-> locals.append_or_force,
                           allow_failure |-> locals.allow_failure])
                  ELSE r
        /\ UNCHANGED <<line, parts>>

\* src/parser.rs: item_type_char alone, as its caller item_type runs it
ParserRsItemTypeCharStep ==
    \E r \in {parser_rs_item_type_char(input)} :
        Step("parser_rs_item_type_char", r, [action_type |-> r.val],
             "parser_rs_modifiers")

(***************************************************************************)
(* Inputs                                                                  *)
(***************************************************************************)
\* longest run of modifier bytes after the type letter
MaxModifiers == 3

\* longest separator run
MaxSepLen == 2

\* longest user or group token made of arbitrary bytes
MaxNameLen == 3

\* longest ARGUMENT made of arbitrary bytes
MaxArgumentLen == 3

SeqsUpTo(S, n) == UNION {[1..k -> S] : k \in 0..n}

RECURSIVE Flatten(_)
Flatten(pieces) ==
    IF pieces = << >> THEN << >> ELSE Head(pieces) \o Flatten(Tail(pieces))

\* the decimal spelling of an unsigned integer
RECURSIVE Spell(_)
Spell(n) ==
    IF n = << >> THEN << >>
    ELSE Spell(Tail(n)) \o <<Digits[Head(n) + 1]>>

Start(at, P) ==
    /\ parts \in P
    /\ line = Flatten(parts)
    /\ input = line
    /\ pc = at
    /\ locals = NoLocals
    /\ ret = NoRet

\* item_type: <<type byte or nothing, modifier bytes, what follows>>
ModifierBytes == {"!", "+", "-"}

ItemTypeTrailers == {<< >>, <<SP>>, <<TAB>>, <<TAB, SP, "/">>, <<"/">>}

ItemTypeParts ==
    {<< << >>, << >>, << >> >>}
        \cup {<<<<c>>, m, t>> : c \in Bytes,
                                m \in SeqsUpTo(ModifierBytes, MaxModifiers),
                                t \in ItemTypeTrailers}

ParserRsItemTypeParts ==
    {<< << >>, << >>, << >> >>}
        \cup {<<<<c>>, << >>, t>> : c \in Bytes, t \in ItemTypeTrailers}

InitItemType == Start("item_type", ItemTypeParts)

NextItemType == ItemTypeStep

SpecItemType == InitItemType /\ [][NextItemType]_vars

InitParserRs == Start("parser_rs_item_type_char", ParserRsItemTypeParts)

NextParserRs == ParserRsItemTypeCharStep

SpecParserRs == InitParserRs /\ [][NextParserRs]_vars

\* mode: <<"~" or nothing, "0" or nothing, digit run, what follows>>, and
\* tokens that are no digit run
ModeRunLengths == {3, 4}

ModeRuns == UNION {[1..k -> OctDigitBytes] : k \in ModeRunLengths}

ModeTrailers == {<< >>, <<SP>>}

OtherModeTokens ==
    {<<"-">>, << >>, <<"7", "5">>, <<"7", "8", "5">>, <<"0", "7", "5", "8">>,
     <<"0", "1", "7", "5", "5">>, <<"1", "0", "7", "5", "5">>,
     <<"r", "w", "x">>, <<"~">>, <<"~", "-">>, <<"-", "7", "5", "5">>}

ModeParts ==
    {<<t, z, r, f>> : t \in {<< >>, <<"~">>}, z \in {<< >>, <<"0">>},
                      r \in ModeRuns, f \in ModeTrailers}
        \cup {<<<< >>, << >>, r, f>> : r \in OtherModeTokens,
                                       f \in ModeTrailers}

InitMode == Start("mode", ModeParts)

NextMode == ModeStep

SpecMode == InitMode /\ [][NextMode]_vars

\* user and group: <<token, what follows>>
NameBytes == {"0", "9", "a", "-", NEL, LF}

BigIdTokens ==
    {Spell(U32_MAX), Spell(Pow2_32), <<"0", "0">> \o Spell(U32_MAX),
     Spell(U64_MAX), <<"4", "2">>, <<"r", "o", "o", "t">>,
     <<"1", "a", "b", "c">>, <<"-", "x">>}

UserTrailers == {<< >>, <<SP>>, <<TAB, "x">>}

UserParts ==
    {<<t, f>> : t \in SeqsUpTo(NameBytes, MaxNameLen) \cup BigIdTokens,
                f \in UserTrailers}

InitUserGroup == Start("user", UserParts) \/ Start("group", UserParts)

NextUserGroup == UserStep \/ GroupStep

SpecUserGroup == InitUserGroup /\ [][NextUserGroup]_vars

\* age: a unit sequence <<"~" or nothing, weeks, days, hours, minutes,
\* seconds, what follows>>, each component a number and its unit letter or
\* nothing; or <<"~" or nothing, token, what follows>>
AgeNumbers == {<<"1">>, <<"3">>, <<"5", "0">>}

AgeComponent(unit) == {<< >>} \cup {n \o <<unit>> : n \in AgeNumbers}

AgeTrailers == {<< >>, <<SP>>, <<TAB, "-">>}

AgeUnitParts ==
    {<<t, w, d, h, m, sec, f>> :
        t \in {<< >>, <<"~">>}, w \in AgeComponent("w"),
        d \in AgeComponent("d"), h \in AgeComponent("h"),
        m \in AgeComponent("m"), sec \in AgeComponent("s"),
        f \in AgeTrailers}

UnitlessTokens ==
    AgeNumbers
        \cup {<<"0">>, <<"6", "0">>, <<"0", "0", "7">>,
              Spell(BigAdd(BigMul(FromInt(18446744), FromInt(1000000)),
                           FromInt(73709))),
              Spell(BigAdd(BigMul(FromInt(18446744), FromInt(1000000)),
                           FromInt(73710))),
              Spell(U64_MAX), Spell(Pow2_64)}

OtherAgeTokens ==
    {<<"-">>, << >>, <<"5", "m", "s">>, <<"1", "h", "5", "m", "s">>,
     <<"1", "s", "2", "m", "s", "3", "m", "s">>,
     <<"1", "w", "e", "e", "k", "s">>,
     <<"2", "d", "a", "y", "s", "3", "h", "o", "u", "r", "s">>,
     <<"5", "s", "e", "c", "o", "n", "d", "s">>, <<"2", "m", "i", "n">>,
     <<"3", "m", "i", "n", "u", "t", "e", "s">>, <<"1", "w", "1", "w">>,
     <<"1", "m", "1", "m">>, <<"5", "0", "s", "1", "m">>,
     <<"3", "h", "1", "d">>, <<"5", "x">>, <<"x">>, <<"-", "-">>}

AgeTokenTrailers == AgeTrailers \cup {<<"x">>, <<SP, SP>>}

\* tokens at the edge of u64: 2^64 seconds (the integer does not fit),
\* 18446744073710 seconds and 30500569 weeks (the product does not fit),
\* 30500568 weeks and 7 days (the sum does not fit), 30500568 weeks (fits)
OverflowAgeTokens ==
    {Spell(Pow2_64) \o <<"s">>,
     Spell(BigAdd(BigMul(FromInt(18446744), FromInt(1000000)),
                  FromInt(73710))) \o <<"s">>,
     <<"3", "0", "5", "0", "0", "5", "6", "9", "w">>,
     <<"3", "0", "5", "0", "0", "5", "6", "8", "w", "7", "d">>,
     <<"3", "0", "5", "0", "0", "5", "6", "8", "w">>}

AgeTokenParts ==
    {<<t, a, f>> : t \in {<< >>, <<"~">>},
                   a \in UnitlessTokens \cup OtherAgeTokens
                             \cup OverflowAgeTokens,
                   f \in AgeTokenTrailers}

InitAge == Start("age", AgeUnitParts \cup AgeTokenParts)

NextAge == AgeStep

SpecAge == InitAge /\ [][NextAge]_vars

\* parse_line: <<TYPE, sep, PATH, sep, MODE, sep, USER, sep, GROUP, sep,
\* AGE, sep, ARGUMENT>> or a prefix of it
TypeTokens == {<<"d">>, <<"z", "!", "+", "-">>, <<"m">>}

PathTokens == {<<"/", "t", "m", "p", "/", "z", "/", "f">>, <<"a">>}

ModeTokens == {<<"-">>, <<"0", "7", "5", "5">>, <<"~", "0", "4", "4", "4">>}

UserTokens ==
    {<<"-">>, <<"0">>, <<"d", "a", "e", "m", "o", "n">>, Spell(Pow2_32)}

GroupTokens == {<<"-">>, <<"4", "2">>, <<"d", "a", "e", "m", "o", "n">>}

AgeTokens == {<<"-">>, <<"1", "d", "3", "h">>, <<"6", "0">>,
 <<"~", "1", "m", "5", "0", "s">>}

ArgumentTokens ==
    {<<"-">>, << >>,
     <<"/", "t", "m", "p", "/", "C", "/", "1", "-", "o", "r", "i", "g", "i", "n">>,
     <<"a", SP, "b", LF>>}

\* every combination of the tokens, one space between them
TokenLines ==
    {<<t, <<SP>>, p, <<SP>>, m, <<SP>>, u, <<SP>>, g, <<SP>>, a, <<SP>>, r>> :
        t \in TypeTokens, p \in PathTokens, m \in ModeTokens,
        u \in UserTokens, g \in GroupTokens, a \in AgeTokens,
        r \in ArgumentTokens}

\* the lines of test_parse_line and one with a unitless age
BaseLines ==
    {<<<<"d">>, <<SP>>, <<"/", "t", "m", "p", "/", "z", "/", "f">>, <<SP>>, <<"0", "7", "5", "5">>, <<SP>>, <<"d", "a", "e", "m", "o", "n">>, <<SP>>, <<"d", "a", "e", "m", "o", "n">>, <<SP>>, <<"1", "d", "3", "h">>, <<SP>>, <<"-">>>>,
     <<<<"d">>, <<SP>>, <<"/", "t", "m", "p", "/", "z", "/", "f">>, <<SP>>, <<"0", "7", "5", "5">>, <<SP>>, <<"d", "a", "e", "m", "o", "n">>, <<SP>>, <<"d", "a", "e", "m", "o", "n">>, <<SP>>, <<"-">>, <<SP>>, <<"/", "t", "m", "p", "/", "C", "/", "1", "-", "o", "r", "i", "g", "i", "n">>>>,
     <<<<"z", "!">>, <<SP>>, <<"/", "p">>, <<SP>>, <<"-">>, <<SP>>, <<"-">>, <<SP>>, <<"0">>, <<SP>>, <<"6", "0">>, <<SP>>, <<"-", SP, "x">>>>}

\* separator runs: none, or up to MaxSepLen spaces and tabs
SepRuns == SeqsUpTo(SpaceBytes, MaxSepLen)

\* a base line with the run s at the separators of P
WithSeps(base, s, P) ==
    [k \in 1..13 |-> IF k % 2 = 0 /\ (k \div 2) \in P THEN s ELSE base[k]]

SepLines ==
    {WithSeps(base, s, P) : base \in BaseLines, s \in SepRuns,
                            P \in SUBSET (1..6)}

\* a base line cut after any of its pieces
CutLines == {SubSeq(base, 1, k) : base \in BaseLines, k \in 0..13}

\* "d /p - - - AGE -" for the AGE tokens of the age parser's own inputs
LineAgeTokens ==
    OtherAgeTokens \cup OverflowAgeTokens
        \cup {<<"~">>, <<"~", "-">>, <<"~", "5", "s">>, <<"1", "w">>,
              <<"2", "d", "3", "h">>, <<"5", "s">>, <<"1", "s", "5", "m", "s">>}

AgeLines ==
    {<<<<"d">>, <<SP>>, <<"/", "p">>, <<SP>>, <<"-">>, <<SP>>, <<"-">>, <<SP>>,
       <<"-">>, <<SP>>, a, <<SP>>, <<"-">>>> : a \in LineAgeTokens}

\* "d PATH - - - - -" for paths of bytes of every kind
LinePathTokens ==
    {<<"a", NEL, "b">>, <<NBSP>>, <<"a", NBSP>>, <<HIGH, HIGH>>,
     <<"/", HIGH, "x">>, <<"a", LF, "b">>, <<"a", VT>>, <<FF, "a">>,
     <<"a", CR, "b">>, <<LF>>, <<"~", "#">>}

PathLines ==
    {<<<<"d">>, <<SP>>, p, <<SP>>, <<"-">>, <<SP>>, <<"-">>, <<SP>>,
       <<"-">>, <<SP>>, <<"-">>, <<SP>>, <<"-">>>> : p \in LinePathTokens}

\* "d /p - - - - ARGUMENT" for every short ARGUMENT over these bytes
ArgumentBytes == {"-", SP, LF, "x"}

ArgumentLines ==
    {<<<<"d">>, <<SP>>, <<"/", "p">>, <<SP>>, <<"-">>, <<SP>>, <<"-">>, <<SP>>,
       <<"-">>, <<SP>>, <<"-">>, <<SP>>, r>> :
        r \in SeqsUpTo(ArgumentBytes, MaxArgumentLen)}

LineParts ==
    TokenLines \cup SepLines \cup CutLines \cup AgeLines \cup PathLines
        \cup ArgumentLines

Init == Start("item_type", LineParts)

Next ==
    \/ ItemTypeStep
    \/ PathStep
    \/ PathSpaceStep
    \/ ModeStep
    \/ ModeSpaceStep
    \/ UserStep
    \/ UserSpaceStep
    \/ GroupStep
    \/ GroupSpaceStep
    \/ AgeStep
    \/ AgeSpaceStep
    \/ ArgumentStep

Spec == Init /\ [][Next]_vars

(***************************************************************************)
(* Claims                                                                  *)
(***************************************************************************)
\* the value of a run of decimal digits, most significant first
RECURSIVE DigitsOf(_)
DigitsOf(bytes) ==
    IF bytes = << >> THEN << >>
    ELSE DigitsOf(Tail(bytes)) \o <<DigitVal(Head(bytes))>>

ValueOf(bytes) == BigNorm(DigitsOf(bytes))

AllIn(bytes, S) == \A k \in 1..Len(bytes) : bytes[k] \in S

IsSep(bytes) == bytes # << >> /\ AllIn(bytes, SpaceBytes)

\* a field parser accepts the token: it succeeds on the token followed by
\* one space and consumes the token and nothing more
Accepts(r) == r.st = "Ok" /\ r.rest = <<SP>>

\* the line is made of seven tokens and six separator runs, each run the
\* whole stretch of spaces and tabs between two tokens, and each field's
\* own parser accepts its token
WellFormedLine ==
    /\ Len(parts) = 13
    /\ \A k \in 1..6 : IsSep(parts[2 * k]) /\ parts[2 * k - 1] # << >>
    /\ parts[13] = << >> \/ Head(parts[13]) \notin SpaceBytes
    /\ item_type(parts[1] \o <<SP>>).st = "Ok"
    /\ item_type(parts[1] \o <<SP>>).rest = << >>
    /\ Accepts(path(parts[3] \o <<SP>>))
    /\ Accepts(mode(parts[5] \o <<SP>>))
    /\ Accepts(user(parts[7] \o <<SP>>))
    /\ Accepts(group(parts[9] \o <<SP>>))
    /\ Accepts(age(parts[11] \o <<SP>>, TRUE))

\* each field as its own parser gives it
FieldByField ==
    LET t == item_type(parts[1] \o <<SP>>).val
    IN  [action_type |-> t.i_type,
         path |-> path(parts[3] \o <<SP>>).val,
         mode |-> mode(parts[5] \o <<SP>>).val,
         user |-> user(parts[7] \o <<SP>>).val,
         group |-> group(parts[9] \o <<SP>>).val,
         age |-> age(parts[11] \o <<SP>>, TRUE).val,
         argument |-> argument(parts[13]).val,
         boot_only |-> t.boot_only,
         append_or_force |-> t.append_or_force,
         allow_failure |-> t.allow_failure]

\* "d  /tmp/z/f  0755 daemon daemon 1d3h -"
ExampleLine ==
    Flatten(<<<<"d">>, <<SP, SP>>, <<"/", "t", "m", "p", "/", "z", "/", "f">>, <<SP, SP>>, <<"0", "7", "5", "5">>, <<SP>>, <<"d", "a", "e", "m", "o", "n">>, <<SP>>,
              <<"d", "a", "e", "m", "o", "n">>, <<SP>>, <<"1", "d", "3", "h">>, <<SP>>, <<"-">>>>)

ExampleAction ==
    [action_type |-> "CREATE_DIRECTORY",
     path |-> <<"/", "t", "m", "p", "/", "z", "/", "f">>,
     mode |-> Some([masked |-> FALSE, mode |-> 7 * 64 + 5 * 8 + 5]),
     user |-> Some([enum |-> "User", Name |-> <<"d", "a", "e", "m", "o", "n">>]),
     group |-> Some([enum |-> "Group", Name |-> <<"d", "a", "e", "m", "o", "n">>]),
     age |-> Some([age |-> BigMul(FromInt(97200), FromInt(1000000)),
                   keep_first_level |-> FALSE]),
     argument |-> None,
     boot_only |-> FALSE,
     append_or_force |-> FALSE,
     allow_failure |-> FALSE]

\* C1: a line of seven well-formed tokens separated by non-empty runs of
\* spaces and tabs never fails or aborts, and when parse_line has returned
\* it has returned, with nothing left over, the Action whose fields are
\* what each field's own parser gives for its token, whatever the
\* separator runs are; the example line gives the example Action.
C1_WellFormedLineParses ==
    /\ WellFormedLine =>
           /\ pc # "panicked"
           /\ pc = "returned" => ret = Ok(<< >>, FieldByField)
    /\ (line = ExampleLine /\ pc = "returned") =>
           ret = Ok(<< >>, ExampleAction)

\* the example line has been parsed, through its two-space separators
C1_Witness ==
    /\ line = ExampleLine
    /\ WellFormedLine
    /\ pc = "returned"
    /\ ret.st = "Ok"

\* the 25 letters the claim calls mapped
MappedLetters ==
    {"f", "d", "D", "v", "q", "Q", "p", "L", "b", "c", "C", "w", "e", "t",
     "T", "a", "A", "h", "H", "x", "X", "r", "R", "z", "Z"}

\* C2: once item_type has run, a first byte that is not one of the 25
\* mapped letters (F, m, any byte outside the alphabet, no byte at all) has
\* given a parse failure; a success has given one of the 25 kinds, the one
\* item_type_char gives for that letter alone, and no other mapped letter
\* gives that kind.
C2_UnmappedFailsMappedDistinct ==
    pc # "item_type" =>
        /\ (line = << >> \/ Head(line) \notin MappedLetters) =>
               (pc = "returned" /\ ret.st = "Err")
        /\ pc = "path" =>
               /\ locals.action_type \in ItemTypes
               /\ locals.action_type = item_type_char(<<Head(line)>>).val
               /\ \A c \in MappedLetters \ {Head(line)} :
                      item_type_char(<<c>>).val # locals.action_type

\* the reserved letter F, followed by a space, has been refused
C2_Witness ==
    /\ line = <<"F", SP>>
    /\ pc = "returned"
    /\ ret.st = "Err"

\* C3: the older resolver never aborts: for a first byte of the alphabet
\* it gives a kind or a parse failure.
C3_OldResolverNeverPanics ==
    (line # << >> /\ \E k \in 1..Len(VALID_ITEM_TYPES) :
                         VALID_ITEM_TYPES[k] = Head(line)) =>
        /\ pc # "panicked"
        /\ pc = "returned" => ret.st = "Err"
        /\ pc = "parser_rs_modifiers" => locals.action_type \in ItemTypes

\* the modifier strings in the fixed order ! + -, none repeated
OrderedModifiers ==
    {b \o a \o f : b \in {<< >>, <<"!">>}, a \in {<< >>, <<"+">>},
                   f \in {<< >>, <<"-">>}}

Has(bytes, c) == \E k \in 1..Len(bytes) : bytes[k] = c

\* C4: once item_type has run on a mapped letter and a modifier string: if
\* the string is an ordered subset of ! + - and a space or tab follows, it
\* has succeeded with each flag set exactly when its modifier is written;
\* if the string repeats a modifier or is out of order, it has failed.
C4_ModifierFlags ==
    (pc # "item_type" /\ line # << >> /\ Head(line) \in MappedLetters) =>
        /\ (parts[2] \in OrderedModifiers /\ parts[3] # << >>
                /\ Head(parts[3]) \in SpaceBytes) =>
               /\ pc = "path"
               /\ locals.boot_only = Has(parts[2], "!")
               /\ locals.append_or_force = Has(parts[2], "+")
               /\ locals.allow_failure = Has(parts[2], "-")
        /\ parts[2] \notin OrderedModifiers =>
               (pc = "returned" /\ ret.st = "Err")

\* "z!+- " has given all three flags
C4_Witness ==
    /\ line = <<"z", "!", "+", "-", SP>>
    /\ pc = "path"
    /\ locals.boot_only /\ locals.append_or_force /\ locals.allow_failure

\* the line starts with k fields, each a non-empty run of bytes other than
\* space and tab followed by a non-empty run of spaces and tabs
RECURSIVE Separated(_, _)
Separated(bytes, k) ==
    IF k = 0 THEN TRUE
    ELSE LET n == TillLen(bytes, SpaceBytes)
             m == PrefixLen(Drop(bytes, n), SpaceBytes)
         IN  n >= 1 /\ m >= 1 /\ Separated(Drop(bytes, n + m), k - 1)

\* C5: parse_line has returned an Action only for a line that holds, in
\* order, six fields each followed by a non-empty run of spaces or tabs; a
\* line that lacks one of the six runs, or ends right after the AGE token,
\* has given no Action.
C5_ActionNeedsSixSeparators ==
    (pc = "returned" /\ ret.st = "Ok") => Separated(line, 6)

\* a line that ends right after its AGE token has been refused
C5_Witness ==
    /\ Len(parts) = 11
    /\ ~Separated(line, 6)
    /\ Separated(line, 5)
    /\ pc = "returned"
    /\ ret.st = "Err"

\* the base-8 value of a run of three or four octal digits
Octal(run) ==
    IF Len(run) = 3
    THEN DigitVal(run[1]) * 64 + DigitVal(run[2]) * 8 + DigitVal(run[3])
    ELSE DigitVal(run[1]) * 512 + DigitVal(run[2]) * 64
             + DigitVal(run[3]) * 8 + DigitVal(run[4])

\* C6: once mode has run on a token made of an optional ~, an optional
\* single 0 and a run of three or four octal digits, it has consumed the
\* whole token and given Some(Mode) with masked set exactly when ~ is
\* written and the base-8 value of the run; on "-" it has given None.
C6_ModeOfOctalRun ==
    pc # "mode" =>
        /\ parts[3] \in ModeRuns =>
               /\ pc = "space1_mode"
               /\ input = parts[4]
               /\ locals.mode
                      = Some([masked |-> parts[1] # << >>,
                              mode |-> Octal(parts[3])])
        /\ parts[3] = <<"-">> =>
               (pc = "space1_mode" /\ locals.mode = None)

\* a token without whitespace of any kind
IsToken(bytes) ==
    bytes # << >> /\ \A k \in 1..Len(bytes) : bytes[k] \notin WhitespaceBytes

\* C7: once user or group has run on a token: "-" has given None; a token
\* of decimal digits of value at most 2^32 - 1 has given ID(value); any
\* other token has been taken whole as Name(token); and the other of user
\* and group, on the same input, ends the same way with the same stretch
\* of input left.
C7_UserGroupToken ==
    (pc \notin {"user", "group"} /\ IsToken(parts[1])) =>
        LET tok == parts[1]
            isUser == pc = "space1_user"
            got == IF isUser THEN locals.user ELSE locals.group
            enum == IF isUser THEN "User" ELSE "Group"
            want == IF tok = <<"-">> THEN None
                    ELSE IF AllIn(tok, DigitBytes)
                    THEN Some([enum |-> enum, ID |-> ValueOf(tok)])
                    ELSE Some([enum |-> enum, Name |-> tok])
        IN  (~AllIn(tok, DigitBytes) \/ BigLeq(ValueOf(tok), U32_MAX)) =>
                /\ pc \in {"space1_user", "space1_group"}
                /\ input = parts[2]
                /\ got = want
                /\ user(line).st = group(line).st
                /\ user(line).rest = group(line).rest

\* C8: once user or group has run on a token of decimal digits whose value
\* exceeds 2^32 - 1, it has returned a parse failure: it has not aborted
\* and has given no ID.
C8_BigIdIsParseFailure ==
    (pc \notin {"user", "group"} /\ parts[1] # << >>
         /\ AllIn(parts[1], DigitBytes)
         /\ BigLt(U32_MAX, ValueOf(parts[1]))) =>
        (pc = "returned" /\ ret.st = "Err")

\* C9: once age has run on a decimal integer N with N * 1,000,000 < 2^64
\* that a space or tab follows, it has given Some(CleanupAge) of
\* N * 1,000,000 microseconds, keep_first_level false, and what is left of
\* the input is all that followed N, the space or tab first.
C9_UnitlessAge ==
    (pc # "age" /\ Len(parts) = 3 /\ parts[1] = << >> /\ parts[2] # << >>
         /\ AllIn(parts[2], DigitBytes)
         /\ BigLt(BigMul(ValueOf(parts[2]), FromInt(1000000)), Pow2_64)
         /\ parts[3] # << >> /\ Head(parts[3]) \in SpaceBytes) =>
        /\ pc = "space1_age"
        /\ locals.age
               = Some([age |-> BigMul(ValueOf(parts[2]), FromInt(1000000)),
                       keep_first_level |-> FALSE])
        /\ input = parts[3]

\* "60" before a space has given 60,000,000 microseconds
C9_Witness ==
    /\ line = <<"6", "0", SP>>
    /\ pc = "space1_age"
    /\ locals.age = Some([age |-> FromInt(60000000),
                          keep_first_level |-> FALSE])
    /\ input = <<SP>>

\* the microseconds of one component, a number and its unit letter, with
\* the weights the claim states
Weight(unit) ==
    CASE unit = "w" -> BigMul(FromInt(604800), FromInt(1000000))
      [] unit = "d" -> BigMul(FromInt(86400), FromInt(1000000))
      [] unit = "h" -> BigMul(FromInt(3600), FromInt(1000000))
      [] unit = "m" -> FromInt(60000000)
      [] unit = "s" -> FromInt(1000000)

Micros(component) ==
    IF component = << >> THEN << >>
    ELSE BigMul(ValueOf(Take(component, Len(component) - 1)),
                Weight(component[Len(component)]))

\* C10: once age has run on a non-empty sequence of components in the
\* order weeks, days, hours, minutes, seconds, each at most once, a number
\* and its short unit letter, it has consumed the whole token and given
\* Some(CleanupAge) of the sum of value * weight over the components
\* written, keep_first_level set exactly when ~ is written before them.
C10_UnitSequenceAge ==
    (pc # "age" /\ Len(parts) = 7
         /\ \E k \in 2..6 : parts[k] # << >>) =>
        /\ pc = "space1_age"
        /\ input = parts[7]
        /\ locals.age
               = Some([age |-> BigAdd(Micros(parts[2]),
                                   BigAdd(Micros(parts[3]),
                                       BigAdd(Micros(parts[4]),
                                           BigAdd(Micros(parts[5]),
                                                  Micros(parts[6]))))),
                       keep_first_level |-> parts[1] # << >>])

\* "~1d3h" has given 97,200,000,000 microseconds, keep_first_level set
C10_Witness ==
    /\ line = <<"~", "1", "d", "3", "h">>
    /\ Len(parts) = 7
    /\ pc = "space1_age"
    /\ locals.age = Some([age |-> BigMul(FromInt(97200), FromInt(1000000)),
                          keep_first_level |-> TRUE])

\* what follows the AGE token is nothing, or starts with a space or tab
TokenEnds(bytes) == bytes = << >> \/ Head(bytes) \in SpaceBytes

\* C11: once age has run on "5ms" or "1h5ms" (an optional ~ before it), a
\* component N and the short spelling ms has counted N * 1,000
\* microseconds: the whole token is consumed and the age is 5,000 and
\* 3,600,005,000 microseconds.
C11_ShortMsIsMilliseconds ==
    (pc # "age" /\ Len(parts) = 3 /\ TokenEnds(parts[3])
         /\ parts[2] \in {<<"5", "m", "s">>, <<"1", "h", "5", "m", "s">>}) =>
        /\ pc = "space1_age"
        /\ input = parts[3]
        /\ locals.age
               = Some([age |-> IF parts[2] = <<"5", "m", "s">>
                               THEN FromInt(5000)
                               ELSE BigAdd(BigMul(FromInt(3600),
                                                  FromInt(1000000)),
                                           FromInt(5000)),
                       keep_first_level |-> parts[1] # << >>])

\* the short spelling of an AGE token written with long unit names
ShortOf(token) ==
    CASE token = <<"1", "w", "e", "e", "k", "s">> -> <<"1", "w">>
      [] token = <<"2", "d", "a", "y", "s", "3", "h", "o", "u", "r", "s">>
             -> <<"2", "d", "3", "h">>
      [] token = <<"5", "s", "e", "c", "o", "n", "d", "s">> -> <<"5", "s">>
      [] token = <<"3", "m", "i", "n", "u", "t", "e", "s">> -> <<"3", "m">>

LongSpelled ==
    {<<"1", "w", "e", "e", "k", "s">>,
     <<"2", "d", "a", "y", "s", "3", "h", "o", "u", "r", "s">>,
     <<"5", "s", "e", "c", "o", "n", "d", "s">>,
     <<"3", "m", "i", "n", "u", "t", "e", "s">>}

\* C12: parse_line, once it has ended on a line "d /p - - - AGE -" whose
\* AGE token is written with long unit names, has returned an Action whose
\* age is the one the age parser gives for the same token in short
\* spelling.
C12_LongSpellingsAccepted ==
    (Len(parts) = 13 /\ parts \in AgeLines /\ parts[11] \in LongSpelled
         /\ pc \in {"returned", "panicked"}) =>
        /\ pc = "returned"
        /\ ret.st = "Ok"
        /\ ret.val.age = age(ShortOf(parts[11]) \o <<SP>>, TRUE).val

\* the AGE token holds a number, a product or a sum above 2^64 - 1
Overflowing ==
    \/ /\ parts[2] # << >>
       /\ AllIn(parts[2], DigitBytes)
       /\ parts[3] # << >> /\ Head(parts[3]) \in SpaceBytes
       /\ BigLeq(Pow2_64, BigMul(ValueOf(parts[2]), FromInt(1000000)))
    \/ parts[2] \in OverflowAgeTokens
                        \ {<<"3", "0", "5", "0", "0", "5", "6", "8", "w">>}

\* C13: once age has run on a token with a number, a product with the unit
\* weight or a sum of components above 2^64 - 1, it has returned a parse
\* failure: it has not aborted and has given no duration.
C13_OverflowIsParseFailure ==
    (pc # "age" /\ Len(parts) = 3 /\ Overflowing) =>
        (pc = "returned" /\ ret.st = "Err")

\* C14: the step that runs argument on the remaining input always succeeds
\* and leaves nothing unconsumed; the Action it returns has argument None
\* when the remaining input is "-" or empty and otherwise Some of the
\* whole remaining input, byte for byte.
C14_ArgumentNoneOrRest ==
    [][pc = "argument" =>
           /\ pc' = "returned"
           /\ ret'.st = "Ok"
           /\ ret'.rest = << >>
           /\ input' = << >>
           /\ ret'.val.argument = IF input \in {<<"-">>, << >>} THEN None
                                  ELSE Some(input)]_vars

\* an ARGUMENT that begins with "-" and holds a space and a newline has
\* been returned whole
C14_Witness ==
    /\ Len(parts) = 13
    /\ parts[13] = <<"-", SP, LF>>
    /\ pc = "returned"
    /\ ret.st = "Ok"
    /\ ret.rest = << >>
    /\ ret.val.argument = Some(<<"-", SP, LF>>)

\* the bytes before the last one
Front(bytes) == SubSeq(bytes, 1, Len(bytes) - 1)

\* the line is a well-formed line L and a newline after it
LineThenNewline ==
    /\ WellFormedLine
    /\ parts[13] # << >>
    /\ parts[13][Len(parts[13])] = LF

\* C15: parse_line, once it has ended on a well-formed line L followed by
\* a newline, has returned the Action it returns for L: the argument is
\* what argument gives for the ARGUMENT of L, without the newline (None
\* for "-", Some("x") for "x"), and the other fields are those of L.
C15_TrailingNewlineKeepsArgument ==
    (LineThenNewline /\ pc \in {"returned", "panicked"}) =>
        /\ pc = "returned"
        /\ ret.st = "Ok"
        /\ ret.val
               = [FieldByField EXCEPT
                      !.argument = argument(Front(parts[13])).val]

\* the statements of parse_line in the order they run, and the return
PcOrder ==
    <<"item_type", "path", "space1_path", "mode", "space1_mode", "user",
      "space1_user", "group", "space1_group", "age", "space1_age",
      "argument", "returned">>

Successor(p) == PcOrder[(CHOOSE k \in 1..12 : PcOrder[k] = p) + 1]

\* what the parser of statement p gives on the input i
FieldParser(p, i, oc) ==
    CASE p = "item_type" -> item_type(i)
      [] p = "path" -> path(i)
      [] p = "mode" -> mode(i)
      [] p = "user" -> user(i)
      [] p = "group" -> group(i)
      [] p = "age" -> age(i, oc)
      [] p = "argument" -> argument(i)
      [] OTHER -> Space1(i)

IsSuffix(a, b) ==
    Len(a) <= Len(b) /\ a = SubSeq(b, Len(b) - Len(a) + 1, Len(b))

ActionFields ==
    {"action_type", "path", "mode", "user", "group", "age", "argument",
     "boot_only", "append_or_force", "allow_failure"}

\* C16: every step of parse_line starts at a statement that has not ended
\* the parse, runs the parser of that statement on the input left, and
\* either moves to the next statement in the fixed order with a suffix of
\* the input left, or, when that parser fails, ends the parse with its
\* error and no Action; an Action is returned only by the step of the
\* last statement, with all ten fields and nothing left over.
C16_LinearStateMachine ==
    [][/\ pc \notin {"returned", "panicked"}
       /\ pc' \in {Successor(pc), "returned", "panicked"}
       /\ IsSuffix(input', input)
       /\ \E oc \in BOOLEAN :
              \E r \in {FieldParser(pc, input, oc)} :
                  /\ r.st = "Ok" => (pc' = Successor(pc) /\ input' = r.rest)
                  /\ r.st = "Err" => (pc' = "returned" /\ ret' = r)
                  /\ r.st = "Panic" => (pc' = "panicked" /\ ret' = ret)
       /\ ret'.st = "Ok" =>
              /\ pc = "argument"
              /\ pc' = "returned"
              /\ ret'.rest = << >>
              /\ DOMAIN ret'.val = ActionFields
              /\ \A f \in ActionFields \ {"argument"} :
                     ret'.val[f] = locals[f]]_vars

\* a parse has ended with an error at USER or the separator before it:
\* PATH and MODE are bound, USER is not, and there is no Action
C16_Witness ==
    /\ pc = "returned"
    /\ ret.st = "Err"
    /\ "mode" \in DOMAIN locals
    /\ "user" \notin DOMAIN locals
    /\ input # << >>

\* the ASCII whitespace bytes
AsciiWhitespace == {SP, TAB, LF, VT, FF, CR}

\* C17: parse_line, once it has ended on a line "d PATH - - - - -" whose
\* PATH token is a non-empty run of bytes none of which is ASCII
\* whitespace (0x85, 0xA0 and 0xFF among them), has returned an Action
\* whose path is the token byte for byte; and no returned Action has an
\* empty path.
C17_PathsAreOpaque ==
    /\ (parts \in PathLines /\ parts[3] # << >>
            /\ \A k \in 1..Len(parts[3]) : parts[3][k] \notin AsciiWhitespace
            /\ pc \in {"returned", "panicked"}) =>
           /\ pc = "returned"
           /\ ret.st = "Ok"
           /\ ret.val.path = parts[3]
    /\ (pc = "returned" /\ ret.st = "Ok") => ret.val.path # << >>

\* C18: when parse_line has returned an Action for a line of seven tokens
\* with one space between them, its age is None only if the AGE token is
\* exactly "-", and Some(duration) only if the AGE token holds a decimal
\* digit: "~" and "~-" give no Action.
C18_AgeNeverDefaults ==
    (parts \in AgeLines \cup TokenLines /\ pc = "returned"
         /\ ret.st = "Ok") =>
        /\ ret.val.age = None => parts[11] = <<"-">>
        /\ ret.val.age # None =>
               \E k \in 1..Len(parts[11]) : parts[11][k] \in DigitBytes

\* C19: parse_line has returned no Action for a line whose AGE token
\* writes a unit twice (1w1w, 1m1m, 1s2ms3ms) or out of the order
\* w, d, h, m, s, ms (50s1m, 3h1d).
C19_UnitsOnceInOrder ==
    (parts \in AgeLines
         /\ parts[11] \in {<<"1", "w", "1", "w">>, <<"1", "m", "1", "m">>,
                           <<"1", "s", "2", "m", "s", "3", "m", "s">>,
                           <<"5", "0", "s", "1", "m">>,
                           <<"3", "h", "1", "d">>}) =>
        ~(pc = "returned" /\ ret.st = "Ok")

====
